---- MODULE Spec2Model ----
(***************************************************************************)
(* A model of the chat service of goatrobotic/service/service.go: the     *)
(* registry s.streams guarded by the RWMutex s.mu, the Client objects     *)
(* (buffered channel Ch, LastSeen, RateLimiter), the four operations      *)
(* Join, SendMessage, Leave and GetMessage, the fan-out goroutines that   *)
(* SendMessage spawns, and the cleanup loop.                              *)
(*                                                                         *)
(* Channels follow the Go runtime: a send on a closed channel panics, a   *)
(* send with a receiver parked on the channel hands the value to that     *)
(* receiver, close wakes every parked receiver with ok = false.  Time is  *)
(* an integer number of seconds; only differences of time are used by     *)
(* the code (time.Since, the limiter's elapsed time).                     *)
(*                                                                         *)
(* Atomicity.  A critical section of s.mu that only reads or writes the   *)
(* registry and the sender's limiter is one action (Join, the Lock part   *)
(* of Leave, the RLock parts of SendMessage and GetMessage): while it     *)
(* runs no writer can run, and what runs beside it (channel operations,   *)
(* the LastSeen store) touches other state.  The cleanup loop closes      *)
(* channels inside its critical section, so it is modelled step by step   *)
(* with the lock held between the steps.                                  *)
(***************************************************************************)
EXTENDS Integers, Sequences, FiniteSets, Bags, TLC

\* ---------------------------------------------------------------- bounds
MaxCalls == 4       \* calls of the service made in one behaviour
MaxTicks == 1       \* steps of the clock in one behaviour
MaxSends == 7       \* calls made in one behaviour that watches the limiter
MaxSeconds == 2     \* seconds that pass in such a behaviour

\* ------------------------------------------------------ program constants
MailboxCap     == 10    \* make(chan string, 10)
Burst          == 5     \* rate.NewLimiter(1, 5): bucket size
RatePerSecond  == 1     \* rate.NewLimiter(1, 5): tokens per second
MaxMessageLen  == 500   \* len(req.Message) > 500
IdleSeconds    == 5 * 60  \* 5*time.Minute
TimeoutSeconds == 10    \* time.After(10 * time.Second)

\* ------------------------------------------------------------ the inputs
Procs == {"p1", "p2"}           \* concurrent callers (request goroutines)
Ids   == {"a", "b"}             \* the non-empty identifiers requests carry
InIds == Ids \cup {""}          \* what a request may carry as id / from
AllIds == Ids \cup {"c"}        \* "c": a client that only receives

RECURSIVE Repeat(_, _)
Repeat(s, n) ==
    IF n = 0 THEN ""
    ELSE IF n % 2 = 1 THEN s \o Repeat(s, n - 1)
    ELSE LET h == Repeat(s, n \div 2) IN h \o h

LongText == Repeat("x", MaxMessageLen + 1)
Texts    == {"hi"}              \* the messages that pass validation
InTexts  == Texts \cup {"", LongText}

NoClient == 0                   \* a nil *Client / an absent map entry

\* ------------------------------------------------------------- the codes
ErrMissingUserId    == "ERR_MISSING_USER_ID"
ErrAlreadyJoined    == "ERR_ALREADY_JOINED"
ErrMissingField     == "ERR_MISSING_FIELD"
ErrMessageTooLong   == "ERR_MESSAGE_TOO_LONG"
ErrSenderNotFound   == "ERR_SENDER_NOT_FOUND"
ErrRateLimit        == "ERR_RATE_LIMIT"
ErrNoReceivers      == "ERR_NO_RECEIVERS"
ErrUserNotFound     == "ERR_USER_NOT_FOUND"
ErrUserDisconnected == "ERR_USER_DISCONNECTED"
ErrNoMessages       == "ERR_NO_MESSAGES"
NoErr               == ""

JoinedMsg      == "User joined successfully"
BroadcastMsg   == "Message broadcasted to clients"
LeftMsg        == "User disconnected successfully"

VARIABLES
    streams,    \* s.streams: id -> reference of its Client, NoClient if absent
    clients,    \* the Client objects ever allocated, by reference 1..Len
    mu,         \* s.mu: "free", or "writer" while the cleanup loop holds Lock
    reaper,     \* the cleanup goroutine: [pc, todo, cur]
    procs,      \* each caller: where it is in its call, the *Client it holds
                \* and when it looked it up, the context of its call
    resp,       \* the responses returned by the last step: {[p, err, msg]}
    fanout,     \* bag of spawned fan-out goroutines [c, msg] not yet run
    panicked,   \* an unrecovered panic has killed the process
    now,        \* the clock, in seconds
    calls       \* the number of calls the behaviour may still make

vars == <<streams, clients, mu, reaper, procs, resp, fanout, panicked, now, calls>>

Registered == {id \in AllIds : streams[id] # NoClient}

\* The Client literal of Join, built at time t.  A new rate.Limiter holds
\* no tokens and a zero last-update time, so that its first use finds the
\* bucket full: the same as a full bucket last updated at t.
NewClient(id, t) ==
    [ID |-> id, Ch |-> <<>>, closed |-> FALSE, recvq |-> <<>>,
     LastSeen |-> t, tokens |-> Burst, last |-> t]

\* A caller between calls.
Idle == [pc |-> "done", c |-> NoClient, at |-> 0, ctx |-> "live"]

\* A caller in the middle of a call, holding the *Client r it looked up
\* at the time `at`; ctx is the state of the context.Context of its call.
At(pc, r) == [pc |-> pc, c |-> r, at |-> now, ctx |-> "live"]

\* What a call returns to caller p: the error code, or NoErr and the
\* message of the response.
Resp(p, e, m) == [p |-> p, err |-> e, msg |-> m]

Init ==
    /\ streams = [id \in AllIds |-> NoClient]
    /\ clients = <<>>
    /\ mu = "free"
    /\ reaper = [pc |-> "wait", todo |-> {}, cur |-> ""]
    /\ procs = [p \in Procs |-> Idle]
    /\ resp = {}
    /\ fanout = EmptyBag
    /\ panicked = FALSE
    /\ now = 0
    /\ calls = MaxCalls

\* A handler of cmd/main.go calls the service on behalf of caller p.
Call(p) ==
    /\ ~panicked
    /\ procs[p].pc = "done"
    /\ calls > 0
    /\ calls' = calls - 1

\* The call of caller p returns.
Return(p, e, m) ==
    /\ procs' = [procs EXCEPT ![p] = Idle]
    /\ resp' = {Resp(p, e, m)}

\* ------------------------------------------------------------------ Join
\* Join without the check of line 68: it overwrites the entry.
JoinGuardMissing(id) == FALSE

\* if _, exists := s.streams[req.ID]; exists
JoinGuard(id) == streams[id] # NoClient

Join(p, id) ==
    /\ Call(p)
    /\ IF id = ""
       THEN /\ Return(p, ErrMissingUserId, "")
            /\ UNCHANGED <<streams, clients>>
       ELSE /\ mu = "free"
            /\ IF JoinGuard(id)
               THEN /\ Return(p, ErrAlreadyJoined, "")
                    /\ UNCHANGED <<streams, clients>>
               ELSE /\ clients' = Append(clients, NewClient(id, now))
                    /\ streams' = [streams EXCEPT ![id] = Len(clients) + 1]
                    /\ Return(p, NoErr, JoinedMsg)
    /\ UNCHANGED <<mu, reaper, fanout, panicked, now>>

\* ------------------------------------------------------- the rate limiter
\* rate.Limiter of golang.org/x/time/rate, in whole seconds: the tokens the
\* bucket holds once the time since the last update is credited.
Min(x, y) == IF x <= y THEN x ELSE y

Advance(c) == Min(Burst, c.tokens + (now - c.last) * RatePerSecond)

\* A limiter that never refuses.
AllowAlways(c) == TRUE

\* sender.RateLimiter.Allow(): whether a token is there to take.
Allow(c) == Advance(c) >= 1

\* A limiter whose token is given back.
ConsumeNot(c) == c

\* The limiter after Allow() took its token.
Consume(c) == [c EXCEPT !.tokens = Advance(c) - 1, !.last = now]

\* ------------------------------------------------------------ SendMessage
\* message := req.From + ": " + req.Message
Format(from, text) == from \o ": " \o text

\* A loop without the `if id == req.From { continue }`.
ReceiversAll(from) == Registered

\* The clients the range loop spawns a goroutine for.
Receivers(from) == {id \in Registered : id # from}

\* A loop that starts two goroutines for each receiver.
SpawnedTwice(from, message) ==
    LET once == SetToBag({[c |-> streams[id], msg |-> message] : id \in Receivers(from)})
    IN once (+) once

\* The goroutines spawned for the receivers, as a bag.
Spawned(from, message) ==
    SetToBag({[c |-> streams[id], msg |-> message] : id \in Receivers(from)})

\* A count that includes the sender.
SentCountAll(from) == Cardinality(Registered)

\* sentCount after the loop: one per goroutine spawned.
SentCount(from) == Cardinality(Receivers(from))

SendMessage(p, from, text) ==
    /\ Call(p)
    /\ IF from = "" \/ text = ""
       THEN /\ Return(p, ErrMissingField, "")
            /\ UNCHANGED <<clients, fanout>>
       ELSE IF Len(text) > MaxMessageLen
       THEN /\ Return(p, ErrMessageTooLong, "")
            /\ UNCHANGED <<clients, fanout>>
       ELSE /\ mu = "free"
            /\ IF streams[from] = NoClient
               THEN /\ Return(p, ErrSenderNotFound, "")
                    /\ UNCHANGED <<clients, fanout>>
               ELSE IF ~Allow(clients[streams[from]])
               THEN /\ Return(p, ErrRateLimit, "")
                    /\ UNCHANGED <<clients, fanout>>
               ELSE /\ clients' = [clients EXCEPT ![streams[from]] = Consume(@)]
                    /\ fanout' = fanout (+) Spawned(from, Format(from, text))
                    /\ IF SentCount(from) = 0
                       THEN Return(p, ErrNoReceivers, "")
                       ELSE Return(p, NoErr, BroadcastMsg)
    /\ UNCHANGED <<streams, mu, reaper, panicked, now>>

\* --------------------------------------------------- a fan-out goroutine
\* select { case c.Ch <- message: default: } on the captured client.
\* The outcome of the non-blocking send on a channel in state c:
\*   "panic"   the channel is closed (send on closed channel)
\*   "handoff" a receiver is parked: it gets the value
\*   "enqueue" the buffer has room
\*   "drop"    the buffer is full: the default case
\* A send without the default case taken on a full buffer.
SendOutcomeNoDrop(c) ==
    IF c.closed THEN "panic"
    ELSE IF c.recvq # <<>> THEN "handoff"
    ELSE "enqueue"

SendOutcome(c) ==
    IF c.closed THEN "panic"
    ELSE IF c.recvq # <<>> THEN "handoff"
    ELSE IF Len(c.Ch) < MailboxCap THEN "enqueue"
    ELSE "drop"

\* A buffer that takes the new value at its head.
EnqueueFront(ch, m) == <<m>> \o ch

\* The buffered channel is a queue: a sent value goes to the tail.
Enqueue(ch, m) == Append(ch, m)

\* A plain send `c.Ch <- message`: it waits while the buffer is full and
\* nobody receives.
ReadyIfRoom(c) == c.closed \/ c.recvq # <<>> \/ Len(c.Ch) < MailboxCap

\* The select has a default case: it is ready whatever the channel holds.
Ready(c) == TRUE

Deliver(g) ==
    LET c == clients[g.c] IN
    /\ ~panicked
    /\ BagIn(g, fanout)
    /\ Ready(c)
    /\ fanout' = fanout (-) SetToBag({g})
    /\ CASE SendOutcome(c) = "panic" ->
              /\ panicked' = TRUE
              /\ resp' = {}
              /\ UNCHANGED <<clients, procs>>
         [] SendOutcome(c) = "handoff" ->
              /\ clients' = [clients EXCEPT ![g.c].recvq = Tail(@)]
              /\ Return(Head(c.recvq), NoErr, g.msg)
              /\ UNCHANGED panicked
         [] SendOutcome(c) = "enqueue" ->
              /\ clients' = [clients EXCEPT ![g.c].Ch = Enqueue(@, g.msg)]
              /\ resp' = {}
              /\ UNCHANGED <<procs, panicked>>
         [] SendOutcome(c) = "drop" ->
              /\ resp' = {}
              /\ UNCHANGED <<clients, procs, panicked>>
    /\ UNCHANGED <<streams, mu, reaper, now, calls>>

\* ----------------------------------------------------------------- close
\* A close that wakes nobody.
WaitersNone(c) == {}

\* The callers parked on the channel of c.
Waiters(c) == {c.recvq[i] : i \in 1..Len(c.recvq)}

\* close(client.Ch) on an open channel: every parked receiver wakes with
\* ok = false, which GetMessage turns into ERR_USER_DISCONNECTED.
Closed(c) == [c EXCEPT !.closed = TRUE, !.recvq = <<>>]

Woken(c) == [q \in Procs |-> IF q \in Waiters(c) THEN Idle ELSE procs[q]]

Disconnected(c) == {Resp(q, ErrUserDisconnected, "") : q \in Waiters(c)}

\* A delete that leaves the entry in the map.
RemovedNot(id) == streams

\* delete(s.streams, id)
Removed(id) == [streams EXCEPT ![id] = NoClient]

\* ----------------------------------------------------------------- Leave
Leave(p, id) ==
    /\ Call(p)
    /\ IF id = ""
       THEN /\ Return(p, ErrMissingUserId, "")
            /\ UNCHANGED streams
       ELSE /\ mu = "free"
            /\ IF streams[id] = NoClient
               THEN /\ Return(p, ErrUserNotFound, "")
                    /\ UNCHANGED streams
               ELSE /\ streams' = Removed(id)
                    /\ procs' = [procs EXCEPT ![p] = At("close", streams[id])]
                    /\ resp' = {}
    /\ UNCHANGED <<clients, mu, reaper, fanout, panicked, now>>

\* close(client.Ch), after s.mu.Unlock(), and the return.
LeaveClose(p) ==
    LET r == procs[p].c IN
    /\ ~panicked
    /\ procs[p].pc = "close"
    /\ IF clients[r].closed
       THEN /\ panicked' = TRUE            \* close of closed channel
            /\ resp' = {}
            /\ UNCHANGED <<clients, procs>>
       ELSE /\ clients' = [clients EXCEPT ![r] = Closed(@)]
            /\ procs' = [Woken(clients[r]) EXCEPT ![p] = Idle]
            /\ resp' = Disconnected(clients[r]) \cup {Resp(p, NoErr, LeftMsg)}
            /\ UNCHANGED panicked
    /\ UNCHANGED <<streams, mu, reaper, fanout, now, calls>>

\* ------------------------------------------------------------ GetMessage
\* The lookup under RLock.
GetMessage(p, id) ==
    /\ Call(p)
    /\ IF id = ""
       THEN Return(p, ErrMissingUserId, "")
       ELSE /\ mu = "free"
            /\ IF streams[id] = NoClient
               THEN Return(p, ErrUserNotFound, "")
               ELSE /\ procs' = [procs EXCEPT ![p] = At("touch", streams[id])]
                    /\ resp' = {}
    /\ UNCHANGED <<streams, clients, mu, reaper, fanout, panicked, now>>

\* client.LastSeen = time.Now(), with no lock held.
GetTouch(p) ==
    /\ ~panicked
    /\ procs[p].pc = "touch"
    /\ clients' = [clients EXCEPT ![procs[p].c].LastSeen = now]
    /\ procs' = [procs EXCEPT ![p].pc = "select"]
    /\ resp' = {}
    /\ UNCHANGED <<streams, mu, reaper, fanout, panicked, now, calls>>

\* The select is entered: a buffered value is taken, a closed and drained
\* channel yields ok = false, otherwise the caller parks on the channel
\* (and on the timer).
GetSelect(p) ==
    LET r == procs[p].c
        c == clients[r]
    IN
    /\ ~panicked
    /\ procs[p].pc = "select"
    /\ IF c.Ch # <<>>
       THEN /\ clients' = [clients EXCEPT ![r].Ch = Tail(@)]
            /\ Return(p, NoErr, Head(c.Ch))
       ELSE IF c.closed
       THEN /\ Return(p, ErrUserDisconnected, "")
            /\ UNCHANGED clients
       ELSE /\ clients' = [clients EXCEPT ![r].recvq = Append(@, p)]
            /\ procs' = [procs EXCEPT ![p].pc = "blocked"]
            /\ resp' = {}
    /\ UNCHANGED <<streams, mu, reaper, fanout, panicked, now, calls>>

Without(q, p) == SelectSeq(q, LAMBDA x : x # p)

\* case <-time.After(10 * time.Second): the timer fires on a parked caller.
GetTimeout(p) ==
    /\ ~panicked
    /\ procs[p].pc = "blocked"
    /\ clients' = [clients EXCEPT ![procs[p].c].recvq = Without(@, p)]
    /\ Return(p, ErrNoMessages, "")
    /\ UNCHANGED <<streams, mu, reaper, fanout, panicked, now, calls>>

\* The context of the GetMessage call of caller p is cancelled (the
\* requester has gone away).  GetMessage receives ctx and never reads it:
\* its select has no case for ctx.Done().
Cancel(p) ==
    /\ ~panicked
    /\ procs[p].pc \in {"touch", "select", "blocked"}
    /\ procs[p].ctx = "live"
    /\ procs' = [procs EXCEPT ![p].ctx = "cancelled"]
    /\ resp' = {}
    /\ UNCHANGED <<streams, clients, mu, reaper, fanout, panicked, now, calls>>

\* ------------------------------------------------------ the cleanup loop
\* A sweep that finds nobody idle.
IsIdleNever(c) == FALSE

\* time.Since(client.LastSeen) > 5*time.Minute
IsIdle(c) == now - c.LastSeen > IdleSeconds

\* A sweep that ranges over the registry without taking the lock.
ReaperNoLock ==
    /\ ~panicked
    /\ reaper.pc = "wait"
    /\ reaper' = [pc |-> "scan", todo |-> Registered, cur |-> ""]
    /\ resp' = {}
    /\ UNCHANGED <<streams, clients, mu, procs, fanout, panicked, now, calls>>

\* A tick of the ticker: s.mu.Lock() and the start of the range loop.
ReaperLock ==
    /\ ~panicked
    /\ reaper.pc = "wait" /\ mu = "free"
    /\ mu' = "writer"
    /\ reaper' = [pc |-> "scan", todo |-> Registered, cur |-> ""]
    /\ resp' = {}
    /\ UNCHANGED <<streams, clients, procs, fanout, panicked, now, calls>>

\* One iteration of the range loop, up to close(client.Ch).
ReaperVisit(id) ==
    LET r == streams[id] IN
    /\ ~panicked
    /\ reaper.pc = "scan" /\ id \in reaper.todo
    /\ IF IsIdle(clients[r])
       THEN IF clients[r].closed
            THEN /\ panicked' = TRUE       \* close of closed channel
                 /\ resp' = {}
                 /\ UNCHANGED <<clients, procs, reaper>>
            ELSE /\ clients' = [clients EXCEPT ![r] = Closed(@)]
                 /\ procs' = Woken(clients[r])
                 /\ resp' = Disconnected(clients[r])
                 /\ reaper' = [pc |-> "del", todo |-> reaper.todo \ {id}, cur |-> id]
                 /\ UNCHANGED panicked
       ELSE /\ reaper' = [reaper EXCEPT !.todo = @ \ {id}]
            /\ resp' = {}
            /\ UNCHANGED <<clients, procs, panicked>>
    /\ UNCHANGED <<streams, mu, fanout, now, calls>>

\* The sweep closing the channel and leaving the entry in the map.
ReaperKeepsEntry ==
    /\ ~panicked
    /\ reaper.pc = "del"
    /\ reaper' = [reaper EXCEPT !.pc = "scan", !.cur = ""]
    /\ resp' = {}
    /\ UNCHANGED <<streams, clients, mu, procs, fanout, panicked, now, calls>>

\* delete(s.streams, id)
ReaperDelete ==
    /\ ~panicked
    /\ reaper.pc = "del"
    /\ streams' = Removed(reaper.cur)
    /\ reaper' = [reaper EXCEPT !.pc = "scan", !.cur = ""]
    /\ resp' = {}
    /\ UNCHANGED <<clients, mu, procs, fanout, panicked, now, calls>>

\* The range loop is over: s.mu.Unlock().
ReaperUnlock ==
    /\ ~panicked
    /\ reaper.pc = "scan" /\ reaper.todo = {}
    /\ mu' = "free"
    /\ reaper' = [reaper EXCEPT !.pc = "wait"]
    /\ resp' = {}
    /\ UNCHANGED <<streams, clients, procs, fanout, panicked, now, calls>>

\* ------------------------------------------------------------- the clock
\* The clock is read at the start and after each long pause: a pause just
\* over the idle threshold, after which every client not seen since is idle
\* and every bucket is full again.
LongPause == IdleSeconds + 1

\* Nothing is running: no call is in progress (a caller parked in GetMessage
\* is woken by its timer within TimeoutSeconds), no goroutine is waiting to
\* run, the cleanup loop waits for its ticker.
Quiet ==
    /\ \A p \in Procs : procs[p].pc = "done"
    /\ fanout = EmptyBag
    /\ reaper.pc = "wait"

\* Time passes.  The steps of a call, of a goroutine and of a sweep take
\* far less than TimeoutSeconds, so a pause longer than that is a pause
\* during which nothing is running.
Tick(d) ==
    /\ ~panicked
    /\ now + d <= MaxTicks * LongPause
    /\ d > TimeoutSeconds => Quiet
    /\ now' = now + d
    /\ resp' = {}
    /\ UNCHANGED <<streams, clients, mu, reaper, procs, fanout, panicked, calls>>

Next ==
    \/ \E p \in Procs, id \in InIds : Join(p, id)
    \/ \E p \in Procs, from \in InIds, text \in InTexts : SendMessage(p, from, text)
    \/ \E g \in BagToSet(fanout) : Deliver(g)
    \/ \E p \in Procs, id \in InIds : Leave(p, id)
    \/ \E p \in Procs : LeaveClose(p)
    \/ \E p \in Procs, id \in InIds : GetMessage(p, id)
    \/ \E p \in Procs : GetTouch(p)
    \/ \E p \in Procs : GetSelect(p)
    \/ \E p \in Procs : GetTimeout(p)
    \/ ReaperLock
    \/ \E id \in AllIds : ReaperVisit(id)
    \/ ReaperDelete
    \/ ReaperUnlock
    \/ Tick(LongPause)

Spec == Init /\ [][Next]_vars

\* The service ten seconds after Join("a"), Join("b") and Join("c"): "a"
\* has sent ten messages (five at once, then one a second, the last five
\* seconds ago), none of which "b" or "c" has fetched.  The clock counts
\* from this state.
FullMailbox == [i \in 1..MailboxCap |-> Format("a", "hi")]

InitFull ==
    /\ streams = [id \in AllIds |-> IF id = "a" THEN 1 ELSE IF id = "b" THEN 2 ELSE 3]
    /\ clients = <<[NewClient("a", -10) EXCEPT !.tokens = 0, !.last = -5],
                   [NewClient("b", -10) EXCEPT !.Ch = FullMailbox],
                   [NewClient("c", -10) EXCEPT !.Ch = FullMailbox]>>
    /\ mu = "free"
    /\ reaper = [pc |-> "wait", todo |-> {}, cur |-> ""]
    /\ procs = [p \in Procs |-> Idle]
    /\ resp = {}
    /\ fanout = EmptyBag
    /\ panicked = FALSE
    /\ now = 0
    /\ calls = MaxCalls - 2

SpecFull == InitFull /\ [][Next]_vars

\* ------------------------------------------------- watching the limiter
\* The service right after Join("a") and Join("b"), watched second by
\* second while callers send (and "b" may leave): the steps that read or
\* write a limiter, and the deliveries they start.
InitRate ==
    /\ streams = [id \in AllIds |-> IF id = "a" THEN 1 ELSE IF id = "b" THEN 2 ELSE NoClient]
    /\ clients = <<NewClient("a", 0), NewClient("b", 0)>>
    /\ mu = "free"
    /\ reaper = [pc |-> "wait", todo |-> {}, cur |-> ""]
    /\ procs = [p \in Procs |-> Idle]
    /\ resp = {}
    /\ fanout = EmptyBag
    /\ panicked = FALSE
    /\ now = 0
    /\ calls = MaxSends

\* One second passes.
Second == now < MaxSeconds /\ Tick(1)

\* "a" sends; "c" has not joined.
RateFroms == {"a", "c", ""}

NextRate ==
    \/ \E p \in Procs, from \in RateFroms, text \in InTexts : SendMessage(p, from, text)
    \/ \E g \in BagToSet(fanout) : Deliver(g)
    \/ \E p \in Procs : Leave(p, "b")
    \/ \E p \in Procs : LeaveClose(p)
    \/ Second

SpecRate == InitRate /\ [][NextRate]_vars

\* ------------------------------------------- polling at the idle threshold
\* The service one second before "a", which joined IdleSeconds - 1 seconds
\* ago and has not been heard of since, reaches the idle threshold; "b" has
\* just joined.  Callers poll and the cleanup loop sweeps while the seconds
\* pass; the clock may advance between any two steps of a call.
InitIdle ==
    /\ streams = [id \in AllIds |-> IF id = "a" THEN 1 ELSE IF id = "b" THEN 2 ELSE NoClient]
    /\ clients = <<NewClient("a", 1 - IdleSeconds), NewClient("b", 0)>>
    /\ mu = "free"
    /\ reaper = [pc |-> "wait", todo |-> {}, cur |-> ""]
    /\ procs = [p \in Procs |-> Idle]
    /\ resp = {}
    /\ fanout = EmptyBag
    /\ panicked = FALSE
    /\ now = 0
    /\ calls = MaxCalls

NextIdle ==
    \/ \E p \in Procs, id \in InIds : GetMessage(p, id)
    \/ \E p \in Procs : GetTouch(p)
    \/ \E p \in Procs : GetSelect(p)
    \/ \E p \in Procs : GetTimeout(p)
    \/ ReaperLock
    \/ \E id \in AllIds : ReaperVisit(id)
    \/ ReaperDelete
    \/ ReaperUnlock
    \/ Second

SpecIdle == InitIdle /\ [][NextIdle]_vars

\* The ticker of the cleanup loop fires every minute and the loop then
\* runs to its end: it takes the lock when it is free, visits every
\* entry, and unlocks.
FairSweep ==
    /\ WF_vars(ReaperLock)
    /\ WF_vars(\E id \in AllIds : ReaperVisit(id))
    /\ WF_vars(ReaperDelete)
    /\ WF_vars(ReaperUnlock)

FairIdle == SpecIdle /\ FairSweep

\* ------------------------------------------------- requesters going away
\* The service right after Join("a") and Join("b"), with callers that
\* fetch and send and whose requests may be cancelled while they wait.
NextCancel ==
    \/ \E p \in Procs, id \in InIds : GetMessage(p, id)
    \/ \E p \in Procs : GetTouch(p)
    \/ \E p \in Procs : GetSelect(p)
    \/ \E p \in Procs : GetTimeout(p)
    \/ \E p \in Procs : Cancel(p)
    \/ \E p \in Procs, from \in Ids, text \in Texts : SendMessage(p, from, text)
    \/ \E g \in BagToSet(fanout) : Deliver(g)

InitCancel ==
    /\ streams = [id \in AllIds |-> IF id = "a" THEN 1 ELSE IF id = "b" THEN 2 ELSE NoClient]
    /\ clients = <<NewClient("a", 0), NewClient("b", 0)>>
    /\ mu = "free"
    /\ reaper = [pc |-> "wait", todo |-> {}, cur |-> ""]
    /\ procs = [p \in Procs |-> Idle]
    /\ resp = {}
    /\ fanout = EmptyBag
    /\ panicked = FALSE
    /\ now = 0
    /\ calls = MaxCalls

SpecCancel == InitCancel /\ [][NextCancel]_vars

\* --------------------------------------------------- numbered messages
\* The service right after Join("a") and Join("b"), with "a" sending
\* messages it numbers in the order of its calls (each call returns before
\* the next is made) and callers fetching for "b".  No time passes, so the
\* tokens "a" has used tell the number of its next message.
OrderTexts == <<"m1", "m2", "m3", "m4", "m5">>

NextText == OrderTexts[Min(Len(OrderTexts), Burst - clients[1].tokens + 1)]

NextOrder ==
    \/ \E p \in Procs : SendMessage(p, "a", NextText)
    \/ \E g \in BagToSet(fanout) : Deliver(g)
    \/ \E p \in Procs : GetMessage(p, "b")
    \/ \E p \in Procs : GetTouch(p)
    \/ \E p \in Procs : GetSelect(p)
    \/ \E p \in Procs : GetTimeout(p)

SpecOrder == InitCancel /\ [][NextOrder]_vars

\* The scheduling the Go runtime gives: every goroutine that can run does
\* run (the callers' steps, the fan-out goroutines, the cleanup loop once
\* it holds the lock), and an armed timer fires.
Goroutines == [c : 1..(MaxCalls + 3), msg : {Format(id, t) : id \in Ids, t \in Texts}]

Fairness ==
    /\ \A p \in Procs :
          /\ WF_vars(LeaveClose(p))
          /\ WF_vars(GetTouch(p))
          /\ WF_vars(GetSelect(p))
          /\ WF_vars(GetTimeout(p))
    /\ \A g \in Goroutines : WF_vars(Deliver(g))
    /\ WF_vars(\E id \in AllIds : ReaperVisit(id))
    /\ WF_vars(ReaperDelete)
    /\ WF_vars(ReaperUnlock)

FairSpec == Spec /\ Fairness

\* ======================================================================
\* The claims
\* ======================================================================
Refs == 1..Len(clients)

\* C1: a fan-out delivery attempt never sends on a closed mailbox, so the
\* process never panics: a delivery to a removed client is a silent drop.
\* The code sends on the closed channel (Leave and the cleanup loop close
\* it while the goroutine still holds the client), which panics.
C1_NoSendOnClosed == ~panicked

\* C2: whenever no writer holds the registry lock, every client in the
\* registry has an open mailbox.
C2_RegisteredOpen ==
    mu = "free" => \A id \in Registered : ~clients[streams[id]].closed

\* A client was evicted or has left (its mailbox is closed and it is out of
\* the registry) while another client is still registered.
C2_Witness ==
    /\ mu = "free"
    /\ \E r \in Refs : clients[r].closed /\ \A id \in AllIds : streams[id] # r
    /\ Registered # {}

\* C3: Join(id) on a registered id fails with ERR_ALREADY_JOINED and leaves
\* the registry and every client as they were (so of two racing Join(id),
\* which the lock serialises, exactly one succeeds); Join(id) on an id that
\* is not registered (also one that has left) succeeds and registers a new
\* client with an empty, open mailbox and a full token bucket, leaving the
\* other clients as they were.  Every entry is keyed by its client's ID.
C3_JoinOnce ==
    /\ [](\A id \in Registered : clients[streams[id]].ID = id)
    /\ [][\A p \in Procs, id \in Ids : Join(p, id) =>
            IF streams[id] # NoClient
            THEN /\ resp' = {Resp(p, ErrAlreadyJoined, "")}
                 /\ streams' = streams
                 /\ clients' = clients
            ELSE /\ resp' = {Resp(p, NoErr, JoinedMsg)}
                 /\ streams'[id] = Len(clients) + 1
                 /\ \A o \in AllIds \ {id} : streams'[o] = streams[o]
                 /\ Len(clients') = Len(clients) + 1
                 /\ \A r \in Refs : clients'[r] = clients[r]
                 /\ LET c == clients'[streams'[id]] IN
                      /\ c.ID = id /\ c.Ch = <<>> /\ ~c.closed /\ c.recvq = <<>>
                      /\ c.LastSeen = now
                      /\ c.tokens + (now - c.last) * RatePerSecond >= Burst
       ]_vars

\* "a" has left and joined again as a new client, and a further Join("a")
\* has just been refused.
C3_Witness ==
    /\ Len(clients) = 3
    /\ clients[1].ID = "a" /\ clients[3].ID = "a" /\ streams["a"] = 3
    /\ clients[3].Ch = <<>> /\ ~clients[3].closed
    /\ \E x \in resp : x.err = ErrAlreadyJoined

\* C4: a GetMessage caller parked on a mailbox when Leave (or the cleanup
\* loop) closes that mailbox returns ERR_USER_DISCONNECTED in that very
\* step, and no caller is ever parked on a closed mailbox.  ("When Leave
\* executes" is read as: when Leave executes close(client.Ch); between
\* Leave's delete and its close the parked caller can still be woken by a
\* delivery or by its timer.)
C4_CloseWakes ==
    /\ [](\A p \in Procs : procs[p].pc = "blocked" =>
              ~clients[procs[p].c].closed)
    /\ [][\A p \in Procs :
            procs[p].pc = "blocked" /\ clients'[procs[p].c].closed =>
                /\ procs'[p].pc = "done"
                /\ Resp(p, ErrUserDisconnected, "") \in resp'
       ]_vars

\* Leave("b") has just closed the mailbox and returned, and the caller that
\* was parked in GetMessage("b") has got ERR_USER_DISCONNECTED.
C4_Witness ==
    /\ streams["b"] = NoClient
    /\ \E r \in Refs : clients[r].ID = "b" /\ clients[r].closed
    /\ \E p, q \in Procs :
          /\ p # q
          /\ Resp(p, ErrUserDisconnected, "") \in resp
          /\ Resp(q, NoErr, LeftMsg) \in resp

\* A GetMessage call that has found its client and has not returned yet.
InGet(p) == procs[p].pc \in {"touch", "select", "blocked"}

\* What a GetMessage call returns in a step, and how it came by it.
GetOutcome(p, x) ==
    LET r == procs[p].c IN
    \/ /\ x.err = NoErr                    \* a buffered message
       /\ procs[p].pc = "select"
       /\ clients[r].Ch # <<>>
       /\ x.msg = Head(clients[r].Ch)
       /\ clients'[r].Ch = Tail(clients[r].Ch)
    \/ /\ x.err = NoErr                    \* a message handed over
       /\ procs[p].pc = "blocked"
       /\ \E g \in BagToSet(fanout) :
             g.c = r /\ g.msg = x.msg /\ fanout' = fanout (-) SetToBag({g})
    \/ /\ x.err = ErrUserDisconnected
       /\ x.msg = ""
       /\ clients'[r].closed
       /\ clients[r].Ch = <<>>
    \/ /\ x.err = ErrNoMessages
       /\ x.msg = ""
       /\ procs[p].pc = "blocked"
       /\ clients[r].Ch = <<>> /\ ~clients[r].closed
       /\ clients'[r].Ch = <<>> /\ ~clients'[r].closed

\* The part of C5 about the outcomes: a GetMessage call waits once (it
\* never goes back from the select), a parked caller's mailbox is empty
\* and open, and a call that returns returns exactly one of a message
\* taken from the mailbox, ERR_USER_DISCONNECTED from a closed mailbox, or
\* ERR_NO_MESSAGES from a wait through which the mailbox was empty and open.
C5_Outcomes ==
    /\ [](\A p \in Procs : procs[p].pc = "blocked" =>
              LET c == clients[procs[p].c] IN c.Ch = <<>> /\ ~c.closed)
    /\ [][\A p \in Procs :
            /\ procs[p].pc = "select" => procs'[p].pc \in {"select", "blocked", "done"}
            /\ procs[p].pc = "blocked" => procs'[p].pc \in {"blocked", "done"}
            /\ InGet(p) /\ procs'[p].pc = "done" =>
                  /\ Cardinality({x \in resp' : x.p = p}) = 1
                  /\ \A x \in resp' : x.p = p => GetOutcome(p, x)
       ]_vars

\* C5: every GetMessage call on a registered client terminates: while it
\* is in progress its next step (the LastSeen write, the select, or at the
\* latest the 10-second timer) can be taken.  A panic of a fan-out
\* goroutine (C1) ends the process with the call still waiting.
C5_GetReturns ==
    \A p \in Procs :
        InGet(p) => ENABLED (GetTouch(p) \/ GetSelect(p) \/ GetTimeout(p))

\* Nothing of the service's state is changed by the step.
SameService == streams' = streams /\ clients' = clients /\ fanout' = fanout

\* C6: a successful Leave(id) and an eviction by the cleanup loop take id
\* out of the registry; while id is out of it, every GetMessage(id) and
\* Leave(id) fails with ERR_USER_NOT_FOUND and every SendMessage(from = id)
\* with ERR_SENDER_NOT_FOUND, changing nothing; only a Join(id) step puts
\* id back, and a client that is out of the registry stays out and, once
\* closed, stays closed.
C6_GoneUntilJoin ==
    [][/\ \A p \in Procs, id \in Ids :
            Leave(p, id) /\ streams[id] # NoClient => streams'[id] = NoClient
       /\ ReaperDelete => streams'[reaper.cur] = NoClient
       /\ \A id \in AllIds : streams[id] = NoClient =>
            /\ streams'[id] # NoClient => \E p \in Procs : Join(p, id)
            /\ \A p \in Procs :
                 /\ GetMessage(p, id) =>
                       resp' = {Resp(p, ErrUserNotFound, "")} /\ SameService
                 /\ Leave(p, id) =>
                       resp' = {Resp(p, ErrUserNotFound, "")} /\ SameService
                 /\ \A text \in Texts : SendMessage(p, id, text) =>
                       resp' = {Resp(p, ErrSenderNotFound, "")} /\ SameService
       /\ \A r \in Refs :
            /\ clients[r].closed => clients'[r].closed
            /\ (\A id \in AllIds : streams[id] # r) =>
                   (\A id \in AllIds : streams'[id] # r)
      ]_vars

\* "a" has left (its client is closed and out of the registry), "b" is
\* registered, and a SendMessage from "a" has just been refused.
C6_Witness ==
    /\ streams["a"] = NoClient
    /\ streams["b"] # NoClient
    /\ \E r \in Refs : clients[r].ID = "a" /\ clients[r].closed
    /\ \E x \in resp : x.err = ErrSenderNotFound

\* C7: a SendMessage from a registered sender with valid fields and a
\* token in its bucket returns ERR_NO_RECEIVERS exactly when no other
\* client is in the registry, and success exactly when one is, whatever
\* the state of the recipients' mailboxes.
C7_NoReceiversIff ==
    [][\A p \in Procs, from \in Ids, text \in Texts :
          /\ SendMessage(p, from, text)
          /\ streams[from] # NoClient
          /\ Allow(clients[streams[from]])
          => LET others == {id \in AllIds \ {from} : streams[id] # NoClient} IN
               /\ others = {} => resp' = {Resp(p, ErrNoReceivers, "")}
               /\ others # {} => resp' = {Resp(p, NoErr, BroadcastMsg)}
      ]_vars

\* A SendMessage from "a" has just succeeded with every other registered
\* client's mailbox full.
C7_Witness ==
    /\ Registered = AllIds
    /\ \A id \in {"b", "c"} :
          /\ Len(clients[streams[id]].Ch) = MailboxCap
          /\ [c |-> streams[id], msg |-> Format("a", "hi")] \in BagToSet(fanout)
    /\ \E x \in resp : x.err = NoErr /\ x.msg = BroadcastMsg

\* The messages a client with this ID sends.
Own(id) == {Format(id, text) : text \in Texts}

\* C8: no message sent by a client ID sits in, is on its way to, or is
\* returned by GetMessage from the mailbox of a client with that ID.
C8_NotToSender ==
    /\ [](/\ \A r \in Refs : \A i \in 1..Len(clients[r].Ch) :
                 clients[r].Ch[i] \notin Own(clients[r].ID)
          /\ \A g \in BagToSet(fanout) : g.msg \notin Own(clients[g.c].ID))
    /\ [][\A p \in Procs : InGet(p) /\ procs'[p].pc = "done" =>
             \A x \in resp' : x.p = p => x.msg \notin Own(clients[procs[p].c].ID)
       ]_vars

\* "a"'s message is in "b"'s mailbox and nowhere else, and a GetMessage
\* of "a" has just come back with ERR_NO_MESSAGES.
C8_Witness ==
    /\ streams["a"] # NoClient /\ streams["b"] # NoClient
    /\ clients[streams["b"]].Ch = <<Format("a", "hi")>>
    /\ clients[streams["a"]].Ch = <<>>
    /\ fanout = EmptyBag
    /\ \E x \in resp : x.err = ErrNoMessages

\* C9: no mailbox holds more than MailboxCap messages; a delivery to a
\* full mailbox changes no client and answers no caller; a delivery to an
\* open mailbox with room appends the message (or hands it to the caller
\* parked on it); and a SendMessage with another client registered
\* returns success and starts a delivery for every other registered
\* client, whatever room their mailboxes have.
C9_MailboxBound ==
    /\ [](\A r \in Refs : Len(clients[r].Ch) <= MailboxCap)
    /\ [][/\ \A g \in BagToSet(fanout) : Deliver(g) =>
               LET c == clients[g.c] IN
               /\ fanout' = fanout (-) SetToBag({g})
               /\ \A r \in Refs \ {g.c} : clients'[r] = clients[r]
               /\ Len(c.Ch) = MailboxCap =>
                     clients' = clients /\ resp' = {}
               /\ Len(c.Ch) < MailboxCap /\ ~c.closed =>
                     IF c.recvq = <<>>
                     THEN clients'[g.c].Ch = Append(c.Ch, g.msg)
                     ELSE \E x \in resp' : x.p = Head(c.recvq) /\ x.msg = g.msg
          /\ \A p \in Procs, from \in Ids, text \in Texts :
               /\ SendMessage(p, from, text)
               /\ streams[from] # NoClient
               /\ Allow(clients[streams[from]])
               /\ Receivers(from) # {}
               => /\ resp' = {Resp(p, NoErr, BroadcastMsg)}
                  /\ \A id \in AllIds \ {from} : streams[id] # NoClient =>
                        LET g == [c |-> streams[id], msg |-> Format(from, text)] IN
                        CopiesIn(g, fanout') = CopiesIn(g, fanout) + 1
       ]_vars

\* "b" has fetched one message, "a" has then sent one more, and both
\* deliveries have run: "b"'s mailbox, which had room, is full again and
\* "c"'s, which was full, is as it was.
C9_Witness ==
    /\ Registered = AllIds
    /\ clients[1].tokens = Burst - 1 /\ clients[1].last = now
    /\ clients[2].LastSeen = now
    /\ clients[2].Ch = FullMailbox
    /\ clients[3].Ch = FullMailbox
    /\ fanout = EmptyBag
    /\ \A p \in Procs : procs[p].pc = "done"
    /\ ~panicked

\* The delivery of "a"'s message to the client r, registered as "b" with
\* room in its mailbox, has been started by a successful SendMessage.
Issued(r) ==
    /\ r \in Refs
    /\ streams["b"] = r
    /\ Len(clients[r].Ch) < MailboxCap
    /\ [c |-> r, msg |-> Format("a", "hi")] \in BagToSet(fanout)

\* The message has reached r: it is in the mailbox, or the GetMessage
\* caller parked on the mailbox has just returned it.
Reached(r) ==
    /\ r \in Refs
    /\ \/ \E i \in 1..Len(clients[r].Ch) : clients[r].Ch[i] = Format("a", "hi")
       \/ \E x \in resp : x.err = NoErr /\ x.msg = Format("a", "hi")

\* r is no longer the client registered as "b", or is being evicted (the
\* cleanup loop closes the mailbox before it deletes the entry).
Unregistered(r) == streams["b"] # r \/ (r \in Refs /\ clients[r].closed)

\* C10: under fair scheduling, a delivery of "a: hi" started for "b" while
\* "b" has room leads to "a: hi" reaching "b" (its mailbox, or the
\* GetMessage("b") caller waiting on it), unless "b" is removed first.
\* A panic of another fan-out goroutine (C1) ends the process before the
\* delivery runs.
C10_Delivered ==
    \A r \in 1..MaxCalls : Issued(r) ~> (Reached(r) \/ Unregistered(r))

\* The same, for the runs in which the process does not crash.
C10_DeliveredUnlessCrash ==
    \A r \in 1..MaxCalls : Issued(r) ~> (Reached(r) \/ Unregistered(r) \/ panicked)

\* The SendMessage calls of "a" that have passed the rate check while the
\* first client of "b" was registered: each started one delivery to it,
\* which is still to run or has put its message into the mailbox (nobody
\* fetches, and the mailbox does not fill within the bounds).
PassedOfA ==
    CopiesIn([c |-> 2, msg |-> Format("a", "hi")], fanout) + Len(clients[2].Ch)

\* C11: the bucket of a client holds between 0 and Burst tokens; of the
\* SendMessage calls of a sender no more than Burst plus one per elapsed
\* second have passed the rate check (so at most 5 of those made within
\* the first second); a call from a registered sender with valid fields
\* fails with ERR_RATE_LIMIT exactly when the bucket holds no token, it
\* returns in the same step and changes nothing, and a call made a second
\* or more after the sender's last pass is not refused.
C11_TokenBucket ==
    /\ [](/\ \A r \in Refs :
               /\ clients[r].tokens \in 0..Burst
               /\ Advance(clients[r]) \in 0..Burst
          /\ streams["b"] = 2 => PassedOfA <= Burst + now * RatePerSecond)
    /\ [][\A p \in Procs, from \in Ids, text \in Texts :
            SendMessage(p, from, text) /\ streams[from] # NoClient =>
              LET c == clients[streams[from]]
                  held == Min(Burst, c.tokens + (now - c.last) * RatePerSecond)
              IN
              /\ procs'[p].pc = "done"
              /\ (Resp(p, ErrRateLimit, "") \in resp') <=> (held = 0)
              /\ held = 0 => clients' = clients /\ fanout' = fanout
              /\ held > 0 => clients'[streams[from]].tokens = held - 1
              /\ now - c.last >= 1 => Resp(p, ErrRateLimit, "") \notin resp'
       ]_vars

\* Within the first second five calls of "a" have passed and a sixth has
\* just been refused.
C11_Witness ==
    /\ now = 0
    /\ streams["b"] = 2
    /\ PassedOfA = Burst
    /\ clients[1].tokens = 0
    /\ \E x \in resp : x.err = ErrRateLimit

\* C12: a SendMessage that fails with ERR_MISSING_FIELD,
\* ERR_MESSAGE_TOO_LONG or ERR_SENDER_NOT_FOUND changes no client (no
\* token is taken) and starts no delivery; one that fails with
\* ERR_NO_RECEIVERS has taken a token from the sender's bucket and leaves
\* it taken.
C12_TokenNotReturned ==
    [][\A p \in Procs, from \in RateFroms, text \in InTexts :
          SendMessage(p, from, text) =>
            \A x \in resp' :
              /\ x.err \in {ErrMissingField, ErrMessageTooLong, ErrSenderNotFound} =>
                    clients' = clients /\ fanout' = fanout
              /\ x.err = ErrNoReceivers =>
                    LET r == streams[from] IN
                    /\ clients'[r].tokens = Advance(clients[r]) - 1
                    /\ Advance(clients'[r]) = Advance(clients[r]) - 1
                    /\ fanout' = fanout
      ]_vars

\* "b" has left before "a" sent anything; within the first second five
\* calls of "a" have failed with ERR_NO_RECEIVERS (nothing was delivered
\* or is to be) and a sixth has just been refused by the limiter.
C12_Witness ==
    /\ now = 0
    /\ Registered = {"a"}
    /\ clients[2].closed /\ clients[2].Ch = <<>>
    /\ fanout = EmptyBag
    /\ ~panicked
    /\ clients[1].tokens = 0
    /\ \E x \in resp : x.err = ErrRateLimit

\* Caller p has looked up client r, within IdleSeconds of r's last
\* refresh, and has not yet written LastSeen.
PollPending(p, r) ==
    /\ procs[p].pc = "touch"
    /\ procs[p].c = r
    /\ procs[p].at - clients[r].LastSeen <= IdleSeconds

\* C13: the cleanup loop evicts no client that polls in time: none that a
\* GetMessage call, made within the idle threshold of the last refresh, is
\* about to refresh.  In the code the call refreshes LastSeen after its
\* lookup and outside the lock, and a sweep that runs in between sees the
\* old LastSeen.
C13_PollerKept ==
    [][\A id \in AllIds :
          ReaperVisit(id) /\ clients'[streams[id]].closed =>
             ~ \E p \in Procs : PollPending(p, streams[id])
      ]_vars

\* C14: a sweep takes every registered client in turn; a client it finds
\* with LastSeen more than IdleSeconds old has its mailbox closed (the
\* callers parked on it return ERR_USER_DISCONNECTED, the messages in it
\* stay) and is then deleted from the registry, as by Leave; a client it
\* finds younger is left as it is; and under the loop's scheduling an idle
\* registered client is in the end evicted, unless a GetMessage call in
\* progress refreshes it first.
C14_IdleEvicted ==
    /\ [](/\ reaper.pc \in {"scan", "del"} => mu = "writer" /\ reaper.todo \subseteq Registered
          /\ reaper.pc = "del" => clients[streams[reaper.cur]].closed)
    /\ [][/\ ReaperLock => reaper'.todo = Registered
          /\ ReaperUnlock => reaper.todo = {}
          /\ reaper'.todo # reaper.todo /\ reaper.pc = "scan" =>
                \E id \in reaper.todo : ReaperVisit(id) /\ reaper'.todo = reaper.todo \ {id}
          /\ \A id \in AllIds : ReaperVisit(id) =>
                LET r == streams[id]
                    c == clients[r]
                IN
                IF now - c.LastSeen > IdleSeconds
                THEN /\ clients'[r] = [c EXCEPT !.closed = TRUE, !.recvq = <<>>]
                     /\ \A q \in Procs :
                          procs[q].pc = "blocked" /\ procs[q].c = r =>
                             Resp(q, ErrUserDisconnected, "") \in resp'
                     /\ reaper'.pc = "del" /\ reaper'.cur = id
                     /\ streams' = streams
                ELSE clients' = clients /\ streams' = streams /\ reaper'.pc = "scan"
          /\ reaper.pc = "del" /\ reaper'.pc # "del" =>
                streams' = [streams EXCEPT ![reaper.cur] = NoClient]
       ]_vars
    /\ \A r \in 1..2 :
          (r \in Refs /\ streams[clients[r].ID] = r /\ IsIdle(clients[r]))
             ~> (streams[clients[r].ID] # r \/ ~IsIdle(clients[r]))

\* A sweep has evicted "a", which had gone idle, and kept "b"; it is over.
C14_Witness ==
    /\ streams["a"] = NoClient
    /\ clients[1].closed /\ IsIdle(clients[1])
    /\ streams["b"] = 2 /\ ~clients[2].closed
    /\ reaper.pc = "wait" /\ mu = "free"

\* C15: a GetMessage call does not go on waiting once its context is
\* cancelled: no caller with a cancelled context is parked on a mailbox.
\* The code's select waits for the mailbox and the timer only.
C15_CancelStopsWait ==
    \A p \in Procs : ~(procs[p].pc = "blocked" /\ procs[p].ctx = "cancelled")

\* The numbered messages as they arrive.
OrderMsgs == {Format("a", OrderTexts[k]) : k \in 1..Len(OrderTexts)}

\* C16: a mailbox changes only by a delivery appending its message at the
\* tail and by a GetMessage call taking the message at the head, which is
\* the message that call returns; a message handed to a parked caller
\* finds the mailbox empty; a GetMessage call returns no other message.
C16_MailboxFifo ==
    /\ [](\A r \in Refs : clients[r].recvq # <<>> => clients[r].Ch = <<>>)
    /\ [][/\ \A r \in Refs :
               LET ch == clients[r].Ch IN
               \/ clients'[r].Ch = ch
               \/ \E g \in BagToSet(fanout) :
                     g.c = r /\ Deliver(g) /\ clients'[r].Ch = Append(ch, g.msg)
               \/ \E p \in Procs :
                     /\ procs[p].c = r /\ GetSelect(p)
                     /\ ch # <<>>
                     /\ clients'[r].Ch = Tail(ch)
                     /\ resp' = {Resp(p, NoErr, Head(ch))}
          /\ \A p \in Procs : \A x \in resp' :
               x.p = p /\ InGet(p) /\ x.err = NoErr =>
                  LET ch == clients[procs[p].c].Ch IN
                  \/ ch # <<>> /\ x.msg = Head(ch) /\ GetSelect(p)
                  \/ /\ ch = <<>>
                     /\ \E g \in BagToSet(fanout) :
                           g.c = procs[p].c /\ g.msg = x.msg /\ Deliver(g)
       ]_vars

\* Two messages were delivered to "b", "a: m2" first; a GetMessage("b")
\* has just returned "a: m2" and "a: m1" is now at the head.
C16_Witness ==
    /\ clients[2].Ch = <<Format("a", "m1")>>
    /\ \E x \in resp : x.err = NoErr /\ x.msg = Format("a", "m2")
    /\ fanout = EmptyBag

\* The number "a" gave to the message m.
MsgNo(m) == CHOOSE k \in 1..Len(OrderTexts) : Format("a", OrderTexts[k]) = m

\* C19: the messages of one sender stand in a recipient's mailbox in the
\* order in which the sender's calls were made.  The code hands each
\* message to a goroutine of its own, and the goroutines of two calls run
\* in either order.
C19_SendOrder ==
    \A r \in Refs : \A i, j \in 1..Len(clients[r].Ch) :
        i < j => MsgNo(clients[r].Ch[i]) < MsgNo(clients[r].Ch[j])

\* The copies of message m on their way to or waiting in the mailbox of
\* client r, in the service state (cl, fo).
CopiesFor(r, m, cl, fo) ==
    CopiesIn([c |-> r, msg |-> m], fo)
      + Cardinality({i \in 1..Len(cl[r].Ch) : cl[r].Ch[i] = m})

\* The GetMessage calls on client r that return m in this step.
ReturnedTo(r, m) ==
    Cardinality({x \in resp' : /\ x.err = NoErr /\ x.msg = m
                               /\ InGet(x.p) /\ procs[x.p].c = r})

\* C20: a successful SendMessage adds one copy of its message for each
\* other registered client and none for anyone else; no other step adds a
\* copy; and each message a GetMessage call returns is a copy taken away,
\* so that no copy is returned twice, whoever is fetching at the time.
\* With every message sent once, there is never more than one copy of it.
C20_AtMostOnce ==
    /\ [](\A r \in Refs, m \in OrderMsgs : CopiesFor(r, m, clients, fanout) <= 1)
    /\ [][\A r \in Refs, m \in OrderMsgs :
            LET sent == \E p \in Procs :
                           /\ SendMessage(p, "a", NextText)
                           /\ Format("a", NextText) = m
                           /\ Resp(p, NoErr, BroadcastMsg) \in resp'
                           /\ r # streams["a"] /\ \E id \in Registered : streams[id] = r
            IN
            CopiesFor(r, m, clients', fanout') + ReturnedTo(r, m)
               <= CopiesFor(r, m, clients, fanout) + (IF sent THEN 1 ELSE 0)
       ]_vars

\* Two callers were parked in GetMessage("b") when "a: m1" was delivered:
\* the first has just returned it, the second is still waiting, and no
\* copy of it is left.
C20_Witness ==
    /\ resp = {Resp("p1", NoErr, Format("a", "m1"))}
    /\ procs["p2"].pc = "blocked" /\ procs["p2"].c = 2
    /\ CopiesFor(2, Format("a", "m1"), clients, fanout) = 0
    /\ clients[1].tokens = Burst - 1

\* C17: while the process runs, a SendMessage call can be made whenever
\* the registry lock is free and returns in the step that makes it,
\* whatever the mailboxes hold and whether or not anyone fetches; every
\* delivery it has started can run, whatever the other deliveries and
\* mailboxes do, and is over in one step that touches no other delivery.
C17_NeverWaits ==
    /\ [](~panicked =>
            /\ \A g \in BagToSet(fanout) : ENABLED Deliver(g)
            /\ \A p \in Procs :
                 procs[p].pc = "done" /\ calls > 0 /\ mu = "free" =>
                    ENABLED SendMessage(p, "a", "hi"))
    /\ [][/\ \A p \in Procs, from \in InIds, text \in InTexts :
               SendMessage(p, from, text) =>
                  procs'[p].pc = "done" /\ \E x \in resp' : x.p = p
          /\ \A g \in BagToSet(fanout) :
               Deliver(g) => fanout' = fanout (-) SetToBag({g})
       ]_vars

\* "a" has sent with both recipients' mailboxes full and nobody fetching:
\* the call has returned and both deliveries have run, dropping the
\* message.
C17_Witness ==
    /\ Registered = AllIds
    /\ clients[1].tokens = Burst - 1 /\ clients[1].last = now
    /\ \A r \in {2, 3} :
          clients[r].Ch = FullMailbox /\ clients[r].LastSeen < now
    /\ fanout = EmptyBag
    /\ \A p \in Procs : procs[p].pc = "done"
    /\ ~panicked

\* C18: a mailbox is closed by whoever took its client out of the
\* registry, and by nobody else: a Leave call about to close holds a
\* client that is open, out of the registry and held by no other Leave
\* call about to close; the entries a sweep has yet to visit are
\* registered with open mailboxes, and the client a sweep has closed and
\* is about to delete is held by no Leave call.
C18_ClosedOnce ==
    /\ \A p \in Procs : procs[p].pc = "close" =>
          LET r == procs[p].c IN
          /\ ~clients[r].closed
          /\ \A id \in AllIds : streams[id] # r
          /\ \A q \in Procs \ {p} : ~(procs[q].pc = "close" /\ procs[q].c = r)
    /\ reaper.pc \in {"scan", "del"} =>
          \A id \in reaper.todo :
             streams[id] # NoClient /\ ~clients[streams[id]].closed
    /\ reaper.pc = "del" =>
          /\ streams[reaper.cur] # NoClient
          /\ \A p \in Procs :
                ~(procs[p].pc = "close" /\ procs[p].c = streams[reaper.cur])

\* Leave("a") has deleted "a", idle like "b", and is about to close its
\* mailbox while a sweep that started after the delete has "b" to visit.
C18_Witness ==
    /\ \E p \in Procs :
          /\ procs[p].pc = "close"
          /\ clients[procs[p].c].ID = "a"
          /\ IsIdle(clients[procs[p].c])
    /\ reaper.pc = "scan"
    /\ reaper.todo = {"b"}
====
